---- MODULE Spec2Model ----
(***************************************************************************)
(* Model of unseal/logit_lense.py: generate_logit_lense(model, tokenizer,  *)
(* sentence, ranks, kl_div, include_input).                                *)
(*                                                                         *)
(* A behaviour fixes a sentence, the two flags and the collaborators       *)
(* (tokenizer, hooked model) and then calls the function twice on them, so *)
(* that two calls that differ only in include_input can be compared.       *)
(* Tensors are functions: logits[layer][position][vocab id], layers and    *)
(* vocabulary ids counted from 0 as in the code, positions from 1 (the     *)
(* code's position p is position p + 1 here).  Floating point values are   *)
(* fixed-point numbers in units of 1/Unit.                                 *)
(***************************************************************************)
EXTENDS Integers, Sequences, FiniteSets, TLC

\* Bounds of the model.
MaxLen == 2
MaxLayers == 2
VocabSize == 2
MaxLogit == 1

\* Fixed-point unit and ln(2) in that unit.
Unit == 1000
Ln2 == 693

Vocab == 0..(VocabSize - 1)
LogitValues == 0..MaxLogit
TokenSeqs == UNION {[1..n -> Vocab] : n \in 1..MaxLen}
LayerCounts == 1..MaxLayers
Faults == {"none", "tokenizer", "forward"}
\* torch.argsort without stable=True leaves the order of equal elements to
\* the build: the lower index first, or the higher index first.
TieOrders == {"low_first", "high_first"}

\* Python's None; every tensor of the model has at least one layer, so no
\* tensor equals it.
None == <<>>

VARIABLES
    sentence,      \* the ids tokenizer.encode gives for the sentence
    ranks,         \* argument ranks
    kl_div,        \* argument kl_div
    num_layers,    \* get_num_layers(model)
    hook_order,    \* the layers whose logit hook fires in a forward pass, in firing order
    fault,         \* which collaborator raises, if any
    tie_order,     \* how this build's argsort orders equal elements
    layer_logits,  \* what the model's layers produce for the sentence: [num_layers, L, vocab]
    save_ctx,      \* model.save_ctx, a dict: sequence of [key, value] in insertion order
    calls          \* the calls made so far, one record per finished call

vars == <<sentence, ranks, kl_div, num_layers, hook_order, fault, tie_order,
          layer_logits, save_ctx, calls>>

inputs == <<sentence, ranks, kl_div, num_layers, hook_order, fault, tie_order>>

----------------------------------------------------------------------------
\* Helpers

RECURSIVE SumOver(_, _)
SumOver(f, S) ==
    IF S = {} THEN 0
    ELSE LET x == CHOOSE y \in S : TRUE IN f[x] + SumOver(f, S \ {x})

Max(S) == CHOOSE x \in S : \A y \in S : y <= x
Min(S) == CHOOSE x \in S : \A y \in S : x <= y

RECURSIVE Ascending(_)
Ascending(S) == IF S = {} THEN <<>> ELSE <<Min(S)>> \o Ascending(S \ {Min(S)})

RECURSIVE Descending(_)
Descending(S) == IF S = {} THEN <<>> ELSE <<Max(S)>> \o Descending(S \ {Max(S)})

Range(s) == {s[i] : i \in DOMAIN s}

\* The firing orders of the hooks of an n-layer model: any subset of the
\* layers' hooks fires, front to back or back to front.
HookOrders(n) == {Ascending(S) : S \in SUBSET (0..(n - 1))}
                     \cup {Descending(S) : S \in SUBSET (0..(n - 1))}

----------------------------------------------------------------------------
\* model.save_ctx: a Python dict keeps its keys in insertion order

HasKey(ctx, k) == \E i \in 1..Len(ctx) : ctx[i].key = k

Lookup(ctx, k) == ctx[CHOOSE i \in 1..Len(ctx) : ctx[i].key = k].value

Store(ctx, k, v) ==
    IF HasKey(ctx, k)
    THEN [i \in 1..Len(ctx) |-> IF ctx[i].key = k THEN [key |-> k, value |-> v] ELSE ctx[i]]
    ELSE Append(ctx, [key |-> k, value |-> v])

\* str(layer) + '_logits'
Key(layer) == ToString(layer) \o "_logits"

\* logit_hook(layer, model), fired: stores the layer's logits, with the batch
\* dimension, under the layer's key
LogitHook(ctx, layer, out) == Store(ctx, Key(layer), [logits |-> <<out[layer]>>])

RECURSIVE RunHooks(_, _, _)
RunHooks(ctx, order, out) ==
    IF order = <<>> THEN ctx
    ELSE RunHooks(LogitHook(ctx, Head(order), out), Tail(order), out)

\* model.forward(tokenized_sentence, hooks=logit_hooks) on the model state
\* m = [save_ctx, forward_calls]: counts the pass, then either raises before a
\* layer has run or lets the hooks that fire fill the capture store
Forward(m, order, out, raises) ==
    [save_ctx      |-> IF raises THEN m.save_ctx ELSE RunHooks(m.save_ctx, order, out),
     forward_calls |-> m.forward_calls + 1,
     exc           |-> IF raises THEN "ForwardError" ELSE ""]

----------------------------------------------------------------------------
\* generate_logit_lense, statement by statement

WarnTwice(include_input) == IF include_input THEN 2 ELSE 0

\* if include_input: logging.warning(...): the number of log lines emitted
WarnIfIncludeInput(include_input) == IF include_input THEN 1 ELSE 0

TargetsKeepFirst(ids) == ids

\* targets = tokenizer.encode(sentence)[1:]
Targets(ids) == Tail(ids)

RunModelPerOutput(m, order, out, raises) ==
    LET once == Forward(m, order, out, raises)
    IN  IF kl_div /\ ~raises THEN Forward(once, order, out, raises) ELSE once

\* model.forward(tokenized_sentence, hooks=logit_hooks), the only pass
RunModel(m, order, out, raises) == Forward(m, order, out, raises)

StackInsertionOrder(ctx, n) ==
    IF \E layer \in 0..(n - 1) : ~HasKey(ctx, Key(layer))
    THEN [exc |-> "KeyError", val |-> None]
    ELSE [exc |-> "", val |-> [layer \in 0..(n - 1) |-> ctx[layer + 1].value.logits[1]]]

StackSkipMissing(ctx, n) ==
    LET present == {layer \in 0..(n - 1) : HasKey(ctx, Key(layer))}
    IN  IF present = {}
        THEN [exc |-> "KeyError", val |-> None]
        ELSE [exc |-> "", val |-> [layer \in present |-> Lookup(ctx, Key(layer)).logits[1]]]

\* torch.stack([model.save_ctx[str(layer) + '_logits']['logits'][0]
\*              for layer in range(num_layers)], dim=0)
Stack(ctx, n) ==
    IF \E layer \in 0..(n - 1) : ~HasKey(ctx, Key(layer))
    THEN [exc |-> "KeyError", val |-> None]
    ELSE [exc |-> "", val |-> [layer \in 0..(n - 1) |-> Lookup(ctx, Key(layer)).logits[1]]]

\* w comes before v in a sort of vec; equal elements in the build's order
Precedes(vec, w, v, descending) ==
    \/ IF descending THEN vec[w] > vec[v] ELSE vec[w] < vec[v]
    \/ vec[w] = vec[v] /\ IF tie_order = "low_first" THEN w < v ELSE w > v

\* torch.argsort(vec, dim=-1, descending=...): the indices that sort vec
Argsort(vec, descending) ==
    [i \in DOMAIN vec |->
        CHOOSE v \in DOMAIN vec :
            Cardinality({w \in DOMAIN vec : Precedes(vec, w, v, descending)}) = i]

InvertedRanksAscending(logits) ==
    [l \in DOMAIN logits |-> [p \in DOMAIN logits[l] |-> Argsort(logits[l][p], FALSE)]]

\* inverted_ranks = torch.argsort(logits, dim=-1, descending=True)
InvertedRanks(logits) ==
    [l \in DOMAIN logits |-> [p \in DOMAIN logits[l] |-> Argsort(logits[l][p], TRUE)]]

RanksFromZero(inverted_ranks) ==
    [l \in DOMAIN inverted_ranks |-> [p \in DOMAIN inverted_ranks[l] |->
        Argsort(inverted_ranks[l][p], FALSE)]]

\* ranks = torch.argsort(inverted_ranks, dim=-1) + 1
AllRanks(inverted_ranks) ==
    [l \in DOMAIN inverted_ranks |-> [p \in DOMAIN inverted_ranks[l] |->
        [v \in DOMAIN inverted_ranks[l][p] |->
            Argsort(inverted_ranks[l][p], FALSE)[v] + 1]]]

\* ranks = ranks[:, torch.arange(len(targets)), targets]
SelectTargets(all_ranks, targets) ==
    [l \in DOMAIN all_ranks |-> [i \in 1..Len(targets) |-> all_ranks[l][i][targets[i]]]]

----------------------------------------------------------------------------
\* Floating point, as fixed-point numbers in units of 1/Unit

RECURSIVE Pow2(_)
Pow2(k) == IF k = 0 THEN 1 ELSE 2 * Pow2(k - 1)

RECURSIVE FloorLog2(_)
FloorLog2(n) == IF n < 2 THEN 0 ELSE 1 + FloorLog2(n \div 2)

\* exp(x): 2^(x / ln 2), the fractional power interpolated linearly
Exp(x) ==
    LET q == x \div Ln2
        mantissa == Unit + ((x % Ln2) * Unit) \div Ln2
    IN  IF q >= 0 THEN mantissa * Pow2(q) ELSE mantissa \div Pow2(0 - q)

\* log(y) for y >= 1, the inverse of Exp
Log(y) ==
    LET k == FloorLog2(y \div Unit)
    IN  k * Ln2 + ((y - Unit * Pow2(k)) * Ln2) \div (Unit * Pow2(k))

\* log_probs = torch.nn.LogSoftmax(dim=-1)(logits)
LogSoftmax(logits) ==
    [l \in DOMAIN logits |-> [p \in DOMAIN logits[l] |->
        LET vec == logits[l][p]
            exps == [v \in DOMAIN vec |-> Exp(vec[v] * Unit)]
            lse == Log(SumOver(exps, DOMAIN vec))
        IN  [v \in DOMAIN vec |-> vec[v] * Unit - lse]]]

\* torch.nn.KLDivLoss(reduction='none', log_target=True), pointwise:
\* exp(target) * (target - input)
KLDivLoss(input, target) == (Exp(target) * (target - input)) \div Unit

KLDivToFirst(log_probs) ==
    [l \in DOMAIN log_probs |-> [p \in DOMAIN log_probs[l] |->
        LET first == log_probs[Min(DOMAIN log_probs)][p]
            loss == [v \in DOMAIN first |-> KLDivLoss(log_probs[l][p][v], first[v])]
        IN  SumOver(loss, DOMAIN first)]]

\* kl_div = kl_div_loss(log_probs, log_probs[-1][None]).sum(dim=-1)
KLDivToFinal(log_probs) ==
    [l \in DOMAIN log_probs |-> [p \in DOMAIN log_probs[l] |->
        LET final == log_probs[Max(DOMAIN log_probs)][p]
            loss == [v \in DOMAIN final |-> KLDivLoss(log_probs[l][p][v], final[v])]
        IN  SumOver(loss, DOMAIN final)]]

KeepAllPositions(t) == t

\* t[:, :-1]
DropLastPosition(t) == [l \in DOMAIN t |-> SubSeq(t[l], 1, Len(t[l]) - 1)]

Raise(exc) == [kind |-> "raise", exc |-> exc, value |-> None]

Return(value) == [kind |-> "return", exc |-> "", value |-> value]

\* return logits[:,:-1], ranks, kl_div[:,:-1]
ReturnStatement(logits, ranks_out, kl_out) ==
    IF kl_out = None
    THEN Raise("TypeError")
    ELSE Return(<<DropLastPosition(logits), ranks_out, DropLastPosition(kl_out)>>)

\* the body of generate_logit_lense on capture store ctx, the model producing
\* out: the log lines emitted, the model afterwards and the call's outcome
Body(ctx, include_input, out) ==
    LET warnings == WarnIfIncludeInput(include_input)
        m0 == [save_ctx |-> ctx, forward_calls |-> 0, exc |-> ""]
    IN  IF fault = "tokenizer"
        THEN [warnings |-> warnings, model |-> m0, outcome |-> Raise("TokenizerError")]
        ELSE
        LET targets == Targets(sentence)
            m1 == RunModel(m0, hook_order, out, fault = "forward")
        IN  IF m1.exc # ""
            THEN [warnings |-> warnings, model |-> m1, outcome |-> Raise(m1.exc)]
            ELSE
            LET stacked == Stack(m1.save_ctx, num_layers)
            IN  IF stacked.exc # ""
                THEN [warnings |-> warnings, model |-> m1, outcome |-> Raise(stacked.exc)]
                ELSE
                LET logits == stacked.val
                    ranks_out == IF ranks
                                 THEN SelectTargets(AllRanks(InvertedRanks(logits)), targets)
                                 ELSE None
                    kl_out == IF kl_div THEN KLDivToFinal(LogSoftmax(logits)) ELSE None
                IN  [warnings |-> warnings, model |-> m1,
                     outcome |-> ReturnStatement(logits, ranks_out, kl_out)]

----------------------------------------------------------------------------
\* The state machine

\* The logits the layers of a model produce for a sentence of len tokens: the
\* logit vector base over the vocabulary, rotated by one vocabulary id per
\* layer and per position.  Every logit vector occurs at the first position
\* of layer 0; neighbouring layers and positions differ unless base is
\* constant.
ModelOutput(base, n, len) ==
    [l \in 0..(n - 1) |-> [p \in 1..len |->
        [v \in Vocab |-> base[(v + l + (p - 1)) % VocabSize]]]]

\* What the model can produce for the sentence.  Fixed by the first forward
\* pass that completes: the model is deterministic.
LayerOutputs ==
    IF fault # "none" \/ calls # <<>>
    THEN {layer_logits}
    ELSE {ModelOutput(base, num_layers, Len(sentence)) : base \in [Vocab -> LogitValues]}

\* argsort runs only when ranks are requested: its tie order is drawn only then
Init ==
    /\ sentence \in TokenSeqs
    /\ ranks \in BOOLEAN
    /\ kl_div \in BOOLEAN
    /\ num_layers \in LayerCounts
    /\ hook_order \in HookOrders(num_layers)
    /\ fault \in Faults
    /\ tie_order \in IF ranks THEN TieOrders ELSE {"low_first"}
    /\ layer_logits = None
    /\ save_ctx = <<>>
    /\ calls = <<>>

Call(include_input) ==
    \E out \in LayerOutputs :
        \E r \in {Body(save_ctx, include_input, out)} :
            /\ calls' = Append(calls, [include_input |-> include_input,
                                       warnings      |-> r.warnings,
                                       forwards      |-> r.model.forward_calls,
                                       outcome       |-> r.outcome])
            /\ save_ctx' = r.model.save_ctx
            /\ layer_logits' = out
            /\ UNCHANGED inputs

\* the first call of generate_logit_lense on the model
FirstCall ==
    /\ calls = <<>>
    /\ \E include_input \in BOOLEAN : Call(include_input)

\* the same call again, with the other include_input
SecondCall ==
    /\ Len(calls) = 1
    /\ Call(~calls[1].include_input)

Next == FirstCall \/ SecondCall

Spec == Init /\ [][Next]_vars

----------------------------------------------------------------------------
\* Vocabulary used by the properties

Finished == 1..Len(calls)

Returned(i) == calls[i].outcome.kind = "return"

ReturnedLogits(i) == calls[i].outcome.value[1]

ReturnedRanks(i) == calls[i].outcome.value[2]

ReturnedKL(i) == calls[i].outcome.value[3]

\* neither the tokenizer nor the forward pass raises and every layer's hook fires
CollaboratorsWork == fault = "none" /\ Range(hook_order) = 0..(num_layers - 1)

\* t is a [n, len, vocab_size] array
HasShape3(t, n, len) ==
    /\ DOMAIN t = 0..(n - 1)
    /\ \A l \in DOMAIN t :
        /\ Len(t[l]) = len
        /\ \A p \in 1..len : DOMAIN t[l][p] = Vocab

\* t is a [n, len] array of integers
HasShape2(t, n, len) ==
    /\ DOMAIN t = 0..(n - 1)
    /\ \A l \in DOMAIN t :
        /\ Len(t[l]) = len
        /\ \A p \in 1..len : t[l][p] \in Int

\* the true next token of position p (the code's position p - 1)
NextToken(p) == sentence[p + 1]

\* the vocabulary ids whose logit is strictly greater than id's
Greater(vec, id) == {v \in DOMAIN vec : vec[v] > vec[id]}

\* the vocabulary ids whose logit equals id's, id among them
Equal(vec, id) == {v \in DOMAIN vec : vec[v] = vec[id]}

----------------------------------------------------------------------------
\* C1: with working collaborators every call returns a triple, for every
\* combination of the flags, whose second element is None when ranks is
\* False and whose third is None when kl_div is False.
ReturnsTripleForAllFlags ==
    \A i \in Finished :
        CollaboratorsWork =>
            /\ Returned(i)
            /\ ~ranks => ReturnedRanks(i) = None
            /\ ~kl_div => ReturnedKL(i) = None

\* C2: the returned logits have shape [num_layers, L-1, vocab_size] for a
\* sentence of L >= 2 tokens: the captured logits of each layer without their
\* last position, and nothing else dropped.
ReturnedLogitsShape ==
    \A i \in Finished :
        Returned(i) /\ Len(sentence) >= 2 =>
            /\ HasShape3(ReturnedLogits(i), num_layers, Len(sentence) - 1)
            /\ \A l \in 0..(num_layers - 1) : \A p \in 1..(Len(sentence) - 1) :
                   ReturnedLogits(i)[l][p] = layer_logits[l][p]

ReturnedLogitsShapeWitness ==
    \E i \in Finished :
        /\ Returned(i)
        /\ Len(sentence) >= 2
        /\ num_layers >= 2
        /\ layer_logits[0][Len(sentence)] # layer_logits[0][1]

\* C3: a call that gets as far as running the model invokes model.forward
\* exactly once, whatever ranks, kl_div and include_input are; no call invokes
\* it more than once.
OneForwardPass ==
    \A i \in Finished :
        /\ calls[i].forwards <= 1
        /\ fault # "tokenizer" => calls[i].forwards = 1

OneForwardPassWitness ==
    \E i \in Finished :
        /\ Returned(i)
        /\ ranks /\ kl_div /\ calls[i].include_input
        /\ ReturnedRanks(i) # None /\ ReturnedKL(i) # None
        /\ calls[i].forwards = 1

\* C4 as stated: every returned rank is 1 + the number of vocabulary ids
\* whose logit is strictly greater than the true next token's, ties or not.
RankCountsStrictlyGreater ==
    \A i \in Finished :
        Returned(i) /\ ranks =>
            \A l \in 0..(num_layers - 1) : \A p \in 1..(Len(sentence) - 1) :
                ReturnedRanks(i)[l][p]
                    = 1 + Cardinality(Greater(ReturnedLogits(i)[l][p], NextToken(p)))

\* C4 amended: every returned rank is at least 1 + the number of vocabulary
\* ids whose logit is strictly greater than the true next token's and at most
\* the number of ids whose logit is greater or equal; it is exactly
\* 1 + the number of strictly greater ones when no other id ties with the
\* true next token.
RankWithinTies ==
    \A i \in Finished :
        Returned(i) /\ ranks =>
            \A l \in 0..(num_layers - 1) : \A p \in 1..(Len(sentence) - 1) :
                LET vec == ReturnedLogits(i)[l][p]
                    greater == Cardinality(Greater(vec, NextToken(p)))
                    equal == Cardinality(Equal(vec, NextToken(p)))
                IN  /\ ReturnedRanks(i)[l][p] >= 1 + greater
                    /\ ReturnedRanks(i)[l][p] <= greater + equal
                    /\ equal = 1 => ReturnedRanks(i)[l][p] = 1 + greater

RankWithinTiesWitness ==
    \E i \in Finished :
        /\ Returned(i) /\ ranks
        /\ \E l \in 0..(num_layers - 1) : \E p \in 1..(Len(sentence) - 1) :
               LET vec == ReturnedLogits(i)[l][p]
               IN  /\ Cardinality(Equal(vec, NextToken(p))) >= 2
                   /\ ReturnedRanks(i)[l][p]
                          = Cardinality(Greater(vec, NextToken(p)))
                              + Cardinality(Equal(vec, NextToken(p)))

\* C5: every returned rank is an integer between 1 and vocab_size.
RanksInRange ==
    \A i \in Finished :
        Returned(i) /\ ranks =>
            \A l \in DOMAIN ReturnedRanks(i) : \A p \in DOMAIN ReturnedRanks(i)[l] :
                ReturnedRanks(i)[l][p] \in 1..VocabSize

RanksInRangeWitness ==
    \E i \in Finished :
        /\ Returned(i) /\ ranks
        /\ \E l, m \in DOMAIN ReturnedRanks(i) : \E p \in DOMAIN ReturnedRanks(i)[l] :
               /\ ReturnedRanks(i)[l][p] = 1
               /\ ReturnedRanks(i)[m][p] = VocabSize

\* C6: the returned KL divergence of the final layer is exactly 0 at every
\* position.
FinalLayerKLZero ==
    \A i \in Finished :
        Returned(i) /\ kl_div =>
            \A p \in DOMAIN ReturnedKL(i)[num_layers - 1] :
                ReturnedKL(i)[num_layers - 1][p] = 0

FinalLayerKLZeroWitness ==
    \E i \in Finished :
        /\ Returned(i) /\ kl_div
        /\ num_layers >= 2
        /\ \E p \in DOMAIN ReturnedKL(i)[0] :
               /\ ReturnedKL(i)[0][p] # 0
               /\ ReturnedKL(i)[num_layers - 1][p] = 0

\* C7: two calls on the same model, tokenizer, sentence and flags, one with
\* include_input and one without, end the same way (same triple or same
\* error); the one with include_input emits exactly one warning, the other
\* none.
IncludeInputOnlyWarns ==
    Len(calls) = 2 =>
        /\ calls[1].include_input # calls[2].include_input
        /\ calls[1].outcome = calls[2].outcome
        /\ \A i \in Finished :
               calls[i].warnings = IF calls[i].include_input THEN 1 ELSE 0

IncludeInputOnlyWarnsWitness ==
    /\ Len(calls) = 2
    /\ calls[2].include_input
    /\ calls[2].warnings = 1
    /\ Returned(1) /\ Returned(2)
    /\ ranks
    /\ Len(sentence) >= 2

\* C8: with ranks and kl_div both requested, the three returned arrays have
\* L-1 positions: logits is [num_layers, L-1, vocab_size], ranks and kl_div
\* are [num_layers, L-1].
ThreeOutputsSamePositions ==
    \A i \in Finished :
        Returned(i) /\ ranks /\ kl_div =>
            /\ HasShape3(ReturnedLogits(i), num_layers, Len(sentence) - 1)
            /\ HasShape2(ReturnedRanks(i), num_layers, Len(sentence) - 1)
            /\ HasShape2(ReturnedKL(i), num_layers, Len(sentence) - 1)

ThreeOutputsSamePositionsWitness ==
    \E i \in Finished :
        /\ Returned(i) /\ ranks /\ kl_div
        /\ Len(sentence) >= 2
        /\ Len(ReturnedRanks(i)[0]) = Len(ReturnedKL(i)[0])
        /\ Len(ReturnedRanks(i)[0]) >= 1

\* C9: slice l of the returned logits is the capture stored under layer l's
\* key, first batch element, without its last position, whatever the order
\* in which the hooks fired and the keys entered the capture store.
LayerAxisFollowsIndex ==
    \A i \in Finished :
        Returned(i) =>
            \A l \in 0..(num_layers - 1) :
                LET capture == Lookup(save_ctx, Key(l)).logits[1]
                IN  ReturnedLogits(i)[l] = SubSeq(capture, 1, Len(capture) - 1)

LayerAxisFollowsIndexWitness ==
    \E i \in Finished :
        /\ Returned(i)
        /\ num_layers >= 2
        /\ save_ctx[1].key = Key(num_layers - 1)
        /\ ReturnedLogits(i)[0] # ReturnedLogits(i)[num_layers - 1]

\* C10: a call after whose forward pass the capture store lacks a layer's key
\* ends with the lookup error and returns nothing; a call whose tokenizer or
\* forward pass raises ends with that error and returns nothing.
ErrorsEndTheCall ==
    \A i \in Finished :
        /\ fault = "tokenizer" => calls[i].outcome = Raise("TokenizerError")
        /\ fault = "forward" => calls[i].outcome = Raise("ForwardError")
        /\ (/\ fault = "none"
            /\ \E l \in 0..(num_layers - 1) : ~HasKey(save_ctx, Key(l)))
               => calls[i].outcome = Raise("KeyError")

ErrorsEndTheCallWitness ==
    \E i \in Finished :
        /\ fault = "none"
        /\ ranks /\ kl_div
        /\ save_ctx # <<>>
        /\ \E l \in 0..(num_layers - 1) : ~HasKey(save_ctx, Key(l))
        /\ calls[i].outcome = Raise("KeyError")

====
